---------------------------- MODULE Spec2Model ----------------------------
(***************************************************************************)
(* Model of src/script.js: the load-time initializer of the page.  The     *)
(* script registers one "load" listener on window.  The load handler       *)
(* reveals the body, schedules a deferred opacity change, opens the popup  *)
(* (classes show / blur / hide on three elements) and attaches a click     *)
(* listener to the close control, whose handler closes the popup again.    *)
(* Every callback runs to completion on the one UI thread, so each         *)
(* callback is one action.  A lookup of an absent element yields null and  *)
(* the property access on it throws, which aborts the rest of the          *)
(* callback that was running.                                              *)
(***************************************************************************)
EXTENDS Naturals, Sequences, FiniteSets

\* Number of click events the user dispatches on the close control in a run.
MaxClicks == 2

\* The four elements the script looks up, in the order of its lookups.
Elements == {"popup", "container", "overlay", "close-popup"}

\* The three elements whose classList the script mutates.
Styled == {"popup", "container", "overlay"}

\* The marker class the script toggles on each styled element.
Marker == [e \in Styled |->
             CASE e = "popup" -> "show"
               [] e = "container" -> "blur"
               [] e = "overlay" -> "hide"]

\* "other" stands for any class of the stylesheet the script never names.
ClassNames == {"show", "blur", "hide", "other"}

DisplayValues == {"none", "block"}

OpacityValues == {0, 1}

VARIABLES
  present,    \* present[e]: element e exists in the document
  classes,    \* classes[e]: the classList of styled element e ({} when absent)
  display,    \* document.body.style.display
  opacity,    \* document.body.style.opacity
  loaded,     \* the host has dispatched the load event
  pending,    \* timers scheduled with setTimeout and not yet fired
  scheduled,  \* number of setTimeout calls made so far
  listeners,  \* listeners["load"] on window, listeners["click"] on close-popup
  faults,     \* uncaught faults reported to the host: <<callback, element>>
  log,        \* the callbacks dispatched so far, in order (history)
  pre         \* the classes and body style the page started with (history)

vars == <<present, classes, display, opacity, loaded, pending, scheduled,
          listeners, faults, log, pre>>

--------------------------------------------------------------------------
(* The state a callback reads and writes, as one record.  thrown is the    *)
(* element whose null lookup aborted the running callback, or "none".      *)

Cur == [classes |-> classes, display |-> display, opacity |-> opacity,
        pending |-> pending, scheduled |-> scheduled,
        listeners |-> listeners, faults |-> faults, thrown |-> "none"]

\* document.body.style.display = v
SetDisplay(d, v) ==
  IF d.thrown # "none" THEN d ELSE [d EXCEPT !.display = v]

\* setTimeout(callback, 50): one more pending single-shot timer, no handle
\* kept.  The delay only places the callback after the callback that called
\* setTimeout has returned; the event loop runs it at some later turn.
SetTimeout(d) ==
  IF d.thrown # "none" THEN d
  ELSE [d EXCEPT !.pending = @ + 1, !.scheduled = @ + 1]

\* lookup(e).classList.add(c); the lookup of an absent element yields null
ClassListAdd(d, e, c) ==
  IF d.thrown # "none" THEN d
  ELSE IF ~present[e] THEN [d EXCEPT !.thrown = e]
  ELSE [d EXCEPT !.classes[e] = @ \cup {c}]

\* lookup(e).classList.remove(c)
ClassListRemove(d, e, c) ==
  IF d.thrown # "none" THEN d
  ELSE IF ~present[e] THEN [d EXCEPT !.thrown = e]
  ELSE [d EXCEPT !.classes[e] = @ \ {c}]

\* lookup(e).addEventListener("click", handler)
AddClickListener(d, e) ==
  IF d.thrown # "none" THEN d
  ELSE IF ~present[e] THEN [d EXCEPT !.thrown = e]
  ELSE [d EXCEPT !.listeners["click"] = @ + 1]

\* The host's default reporting of an uncaught fault of callback h.
Report(d, h) ==
  IF d.thrown = "none" THEN d
  ELSE [d EXCEPT !.faults = @ \cup {<<h, d.thrown>>}, !.thrown = "none"]

--------------------------------------------------------------------------
(* The callbacks of the script.                                            *)

\* Variant of TopLevelScript: the click listener attached at script evaluation.
TopLevelScriptAttachesClick == [load |-> 1, click |-> 1]

\* Script evaluation (line 1): window.addEventListener("load", ...).  It
\* registers the load listener and nothing else.
TopLevelScript == [load |-> 1, click |-> 0]

\* Variant of TimerCallback: the callback leaves the opacity alone.
TimerCallbackNoReveal(d) == d

\* The function passed to setTimeout (lines 3-5).
TimerCallback(d) == [d EXCEPT !.opacity = 1]

\* Variant of ClickHandler: the overlay statement is left out.
ClickHandlerKeepsOverlay(d) ==
  LET d1 == ClassListRemove(d, "popup", "show")
      d2 == ClassListRemove(d1, "container", "blur")
  IN  d2

\* Variant of ClickHandler: the container statement is left out.
ClickHandlerKeepsBlur(d) ==
  LET d1 == ClassListRemove(d, "popup", "show")
      d3 == ClassListAdd(d1, "overlay", "hide")
  IN  d3

\* Variant of ClickHandler: the popup statement is left out.
ClickHandlerKeepsShow(d) ==
  LET d2 == ClassListRemove(d, "container", "blur")
      d3 == ClassListAdd(d2, "overlay", "hide")
  IN  d3

\* classList.toggle(c) on the element e.
ClassListToggle(d, e, c) ==
  IF d.thrown # "none" THEN d
  ELSE IF ~present[e] THEN [d EXCEPT !.thrown = e]
  ELSE [d EXCEPT !.classes[e] = IF c \in @ THEN @ \ {c} ELSE @ \cup {c}]

\* Variant of ClickHandler: toggle in place of remove and add.
ClickHandlerToggle(d) ==
  LET d1 == ClassListToggle(d, "popup", "show")
      d2 == ClassListToggle(d1, "container", "blur")
      d3 == ClassListToggle(d2, "overlay", "hide")
  IN  d3

\* The click listener of the close control (lines 10-14).
ClickHandler(d) ==
  LET d1 == ClassListRemove(d, "popup", "show")
      d2 == ClassListRemove(d1, "container", "blur")
      d3 == ClassListAdd(d2, "overlay", "hide")
  IN  d3

\* Variant of LoadHandler: the overlay gets hide added in place of removed.
LoadHandlerHidesOverlay(d) ==
  LET d1 == SetDisplay(d, "block")
      d2 == SetTimeout(d1)
      d3 == ClassListAdd(d2, "popup", "show")
      d4 == ClassListAdd(d3, "container", "blur")
      d5 == ClassListAdd(d4, "overlay", "hide")
      d6 == AddClickListener(d5, "close-popup")
  IN  d6

\* Variant of LoadHandler: the opacity is set at once, not in a timer callback.
LoadHandlerEagerOpacity(d) ==
  LET d1 == SetDisplay(d, "block")
      d2 == [d1 EXCEPT !.opacity = 1]
      d3 == ClassListAdd(d2, "popup", "show")
      d4 == ClassListAdd(d3, "container", "blur")
      d5 == ClassListRemove(d4, "overlay", "hide")
      d6 == AddClickListener(d5, "close-popup")
  IN  d6

\* Variant of LoadHandler: the popup is opened before the body is revealed.
LoadHandlerPopupFirst(d) ==
  LET d1 == ClassListAdd(d, "popup", "show")
      d2 == ClassListAdd(d1, "container", "blur")
      d3 == ClassListRemove(d2, "overlay", "hide")
      d4 == SetDisplay(d3, "block")
      d5 == SetTimeout(d4)
      d6 == AddClickListener(d5, "close-popup")
  IN  d6

\* Variant of LoadHandler: the close listener is attached before the popup is
\* opened.
LoadHandlerListenerFirst(d) ==
  LET d1 == SetDisplay(d, "block")
      d2 == SetTimeout(d1)
      d3 == AddClickListener(d2, "close-popup")
      d4 == ClassListAdd(d3, "popup", "show")
      d5 == ClassListAdd(d4, "container", "blur")
      d6 == ClassListRemove(d5, "overlay", "hide")
  IN  d6

\* The load listener (lines 1-15).
LoadHandler(d) ==
  LET d1 == SetDisplay(d, "block")
      d2 == SetTimeout(d1)
      d3 == ClassListAdd(d2, "popup", "show")
      d4 == ClassListAdd(d3, "container", "blur")
      d5 == ClassListRemove(d4, "overlay", "hide")
      d6 == AddClickListener(d5, "close-popup")
  IN  d6

\* The host dispatching a click event to the n click listeners that were
\* registered when the dispatch began; a fault ends only the listener it is in.
RECURSIVE ClickDispatch(_, _)
ClickDispatch(d, n) ==
  IF n = 0 THEN d ELSE ClickDispatch(Report(ClickHandler(d), "click"), n - 1)

\* The host dispatching the load event to the n load listeners.
RECURSIVE LoadDispatch(_, _)
LoadDispatch(d, n) ==
  IF n = 0 THEN d ELSE LoadDispatch(Report(LoadHandler(d), "load"), n - 1)

\* Write the record a callback produced back to the page.
Commit(d) ==
  /\ classes' = d.classes
  /\ display' = d.display
  /\ opacity' = d.opacity
  /\ pending' = d.pending
  /\ scheduled' = d.scheduled
  /\ listeners' = d.listeners
  /\ faults' = d.faults

--------------------------------------------------------------------------
(* The page.                                                               *)

\* The class lists an element can start with: its marker and/or other classes.
InitialClasses(e) == SUBSET {Marker[e], "other"}

Init ==
  /\ present \in [Elements -> BOOLEAN]
  /\ classes \in [Styled -> SUBSET ClassNames]
  /\ \A e \in Styled :
       classes[e] \in (IF present[e] THEN InitialClasses(e) ELSE {{}})
  /\ display \in DisplayValues
  /\ opacity \in OpacityValues
  /\ loaded = FALSE
  /\ pending = 0
  /\ scheduled = 0
  /\ listeners = TopLevelScript
  /\ faults = {}
  /\ log = << >>
  /\ pre = [classes |-> classes, display |-> display, opacity |-> opacity]

\* The host fires load once per document.
Load ==
  /\ ~loaded
  /\ loaded' = TRUE
  /\ Commit(LoadDispatch(Cur, listeners["load"]))
  /\ log' = Append(log, "load")
  /\ UNCHANGED <<present, pre>>

\* The event loop runs a timer that is due.
TimerFire ==
  /\ pending > 0
  /\ Commit([TimerCallback(Cur) EXCEPT !.pending = @ - 1])
  /\ log' = Append(log, "timer")
  /\ UNCHANGED <<present, loaded, pre>>

\* The user clicks the close control (only an element of the page can be
\* clicked).
Click ==
  /\ present["close-popup"]
  /\ Len(SelectSeq(log, LAMBDA x : x = "click")) < MaxClicks  \* bound of the model
  /\ Commit(ClickDispatch(Cur, listeners["click"]))
  /\ log' = Append(log, "click")
  /\ UNCHANGED <<present, loaded, pre>>

Next == Load \/ TimerFire \/ Click

Spec == Init /\ [][Next]_vars

\* The event loop does not leave a due timer waiting forever.
FairSpec == Spec /\ WF_vars(TimerFire)

--------------------------------------------------------------------------
(* Vocabulary of the properties.                                           *)

AllPresent == \A e \in Elements : present[e]

Count(x) == Len(SelectSeq(log, LAMBDA y : y = x))

Fired == Count("timer")

Last == IF log = << >> THEN "none" ELSE log[Len(log)]

\* Clicks dispatched after the load event.
RECURSIVE ClicksFrom(_)
ClicksFrom(i) ==
  IF i > Len(log) THEN 0
  ELSE (IF log[i] = "click" THEN 1 ELSE 0) + ClicksFrom(i + 1)

LoadIndex == CHOOSE i \in 1..Len(log) : log[i] = "load"

ClicksAfterLoad == IF loaded THEN ClicksFrom(LoadIndex) ELSE 0

Open == "show" \in classes["popup"]

Blurred == "blur" \in classes["container"]

OverlayVisible == "hide" \notin classes["overlay"]

LoadStep == ~loaded /\ loaded'

ClickStep == log' = Append(log, "click")

TimerStep == log' = Append(log, "timer")

--------------------------------------------------------------------------
(* Properties.                                                             *)

\* C1: with all four elements present, in the state right after the load
\* handler returns the popup has show, the container has blur, the overlay
\* lacks hide and the body display is block, whatever the page started with.
C1_LoadOpensPopup ==
  (AllPresent /\ Last = "load") =>
    /\ Open
    /\ Blurred
    /\ OverlayVisible
    /\ display = "block"

C1_Witness ==
  /\ AllPresent
  /\ Last = "load"
  /\ pre.display = "none"
  /\ "show" \notin pre.classes["popup"]
  /\ "blur" \notin pre.classes["container"]
  /\ "hide" \in pre.classes["overlay"]

\* C2: the body opacity keeps its pre-load value until the deferred callback
\* fires and is 1 in every state after; setTimeout is called only by the load
\* handler and exactly once, the callback fires at most once, and with a fair
\* event loop it fires after load.
C2_DeferredReveal ==
  /\ [](Fired = 0 => opacity = pre.opacity)
  /\ [](Fired > 0 => opacity = 1)
  /\ [](scheduled = (IF loaded THEN 1 ELSE 0))
  /\ [][scheduled' # scheduled => LoadStep]_vars
  /\ [](Fired <= 1)
  /\ (loaded ~> (Fired = 1))

C2_Witness ==
  /\ Fired = 1
  /\ pre.opacity = 0
  /\ opacity = 1

\* C3: with all four elements present, the state right after a click on the
\* close control that follows load has the popup without show, the container
\* without blur and the overlay with hide.
C3_ClickCloses ==
  (AllPresent /\ loaded /\ Last = "click") =>
    /\ ~Open
    /\ ~Blurred
    /\ ~OverlayVisible

C3_Witness ==
  /\ AllPresent
  /\ loaded
  /\ Last = "click"
  /\ Fired = 1
  /\ "hide" \notin pre.classes["overlay"]

\* C4: a click that directly follows another click after load leaves the
\* classes, the body style, the timers, the listeners and the reported faults
\* as the first click left them, and with all elements present no click
\* handler ever reports a fault.
C4_ClickIdempotent ==
  /\ [][(ClickStep /\ loaded /\ Last = "click") =>
          UNCHANGED <<classes, display, opacity, pending, scheduled,
                      listeners, faults>>]_vars
  /\ [](AllPresent => \A f \in faults : f[1] # "click")

C4_Witness ==
  /\ AllPresent
  /\ Len(log) >= 3
  /\ log[Len(log)] = "click"
  /\ log[Len(log) - 1] = "click"
  /\ log[Len(log) - 2] = "load"

\* Popup shown, container blurred and overlay visible agree.
InSync == (Open <=> Blurred) /\ (Blurred <=> OverlayVisible)

\* C5 as stated: in every reachable state, from page start onward, the popup
\* has show iff the container has blur iff the overlay lacks hide.
C5_AlwaysInSync == InSync

\* C5 (amended): with all four elements present, in every state from the
\* return of the load handler onward the popup has show iff the container has
\* blur iff the overlay lacks hide, whether the reveal timer is pending or has
\* fired.
C5_InSyncAfterLoad == (AllPresent /\ loaded) => InSync

C5_Witness ==
  /\ AllPresent
  /\ loaded
  /\ pending = 1
  /\ ClicksAfterLoad >= 1
  /\ ~Open
  /\ "show" \in pre.classes["popup"]
  /\ "blur" \notin pre.classes["container"]

\* C6: before load no click listener exists on the close control and a click
\* on it leaves the classes and the body style as the page started with; the
\* set of listeners changes only in the load step.
C6_NoListenerBeforeLoad ==
  /\ [](~loaded => /\ listeners["click"] = 0
                   /\ classes = pre.classes
                   /\ display = pre.display
                   /\ opacity = pre.opacity)
  /\ [][listeners' # listeners => LoadStep]_vars

C6_Witness ==
  /\ ~loaded
  /\ Count("click") >= 1
  /\ Open
  /\ Blurred
  /\ OverlayVisible

\* C7: with the popup element absent, load reports a fault on the popup
\* lookup, the body display is block, the timer is scheduled and fires, and
\* the classes of the container and the overlay stay as they were (no blur
\* gained, no hide lost); the page still takes clicks and timers.
C7_PopupAbsent ==
  /\ []((loaded /\ ~present["popup"]) =>
          /\ display = "block"
          /\ scheduled = 1
          /\ faults = {<<"load", "popup">>}
          /\ classes = pre.classes)
  /\ ((loaded /\ ~present["popup"]) ~> (Fired = 1 /\ opacity = 1))

C7_Witness ==
  /\ loaded
  /\ ~present["popup"]
  /\ Fired = 1
  /\ pre.display = "none"
  /\ present["container"] /\ ~Blurred
  /\ present["overlay"] /\ ~OverlayVisible

\* C8 as stated: the popup is Open after load, goes from Closed to Open only
\* at load, every close click after load leads to Closed, and once Closed
\* after load it never becomes Open again.
C8_StateMachine ==
  /\ [][(ClickStep /\ loaded) => ~Open']_vars
  /\ [][(~Open /\ Open') => LoadStep]_vars
  /\ [][(loaded /\ ~Open) => ~Open']_vars

\* C8 (amended): with all four elements present the popup is Open right
\* after load and every close click after load leads to Closed; in every
\* page the popup goes from Closed to Open only in the load step, which runs
\* once, and once Closed after load it never becomes Open again.
C8_StateMachineAllPresent ==
  /\ []((AllPresent /\ Last = "load") => Open)
  /\ [][(ClickStep /\ loaded /\ AllPresent) => ~Open']_vars
  /\ [][(~Open /\ Open') => LoadStep]_vars
  /\ [][(loaded /\ ~Open) => ~Open']_vars
  /\ [](Count("load") <= 1)

C8_Witness ==
  /\ AllPresent
  /\ "show" \notin pre.classes["popup"]
  /\ loaded
  /\ ClicksAfterLoad = 2
  /\ Fired = 1
  /\ ~Open

\* The first absent element in the order of the load handler's lookups.
FirstMissing ==
  CASE ~present["popup"] -> "popup"
    [] present["popup"] /\ ~present["container"] -> "container"
    [] present["popup"] /\ present["container"] /\ ~present["overlay"]
         -> "overlay"
    [] present["popup"] /\ present["container"] /\ present["overlay"]
         /\ ~present["close-popup"] -> "close-popup"
    [] OTHER -> "none"

\* The classes after the statements that precede the lookup of element m.
ClassesBefore(m) ==
  CASE m = "popup" -> pre.classes
    [] m = "container" ->
         [pre.classes EXCEPT !["popup"] = @ \cup {"show"}]
    [] m = "overlay" ->
         [pre.classes EXCEPT !["popup"] = @ \cup {"show"},
                             !["container"] = @ \cup {"blur"}]
    [] m = "close-popup" ->
         [pre.classes EXCEPT !["popup"] = @ \cup {"show"},
                             !["container"] = @ \cup {"blur"},
                             !["overlay"] = @ \ {"hide"}]

\* C9: with an element absent, the load handler applies the statements before
\* the first absent lookup and none after it, reports that one fault, and
\* attaches no click listener; the listener exists after load exactly when all
\* four elements are present; and later clicks change nothing, so the classes
\* stay as the load handler left them.
C9_PartialLoad ==
  /\ (loaded /\ ~AllPresent) =>
       /\ classes = ClassesBefore(FirstMissing)
       /\ faults = {<<"load", FirstMissing>>}
       /\ display = "block"
       /\ scheduled = 1
  /\ loaded => (listeners["click"] = (IF AllPresent THEN 1 ELSE 0))

C9_Witness ==
  /\ loaded
  /\ FirstMissing = "container"
  /\ present["overlay"]
  /\ present["close-popup"]
  /\ "show" \notin pre.classes["popup"]
  /\ Open
  /\ ~OverlayVisible
  /\ ClicksAfterLoad = 2
  /\ Fired = 1

\* The classes of a page whose popup was opened and then closed.
ClosedClasses ==
  [pre.classes EXCEPT !["popup"] = @ \ {"show"},
                      !["container"] = @ \ {"blur"},
                      !["overlay"] = @ \cup {"hide"}]

\* C10 as stated: the timer callback leaves classes and display alone, the
\* click handler leaves display and opacity alone, and after load, once the
\* timer has fired and the close control was clicked, the state is opacity 1,
\* display block, popup Closed.
C10_Independent ==
  /\ [][TimerStep => UNCHANGED <<classes, display>>]_vars
  /\ [][ClickStep => UNCHANGED <<display, opacity>>]_vars
  /\ []((loaded /\ Fired = 1 /\ ClicksAfterLoad >= 1) =>
          /\ opacity = 1
          /\ display = "block"
          /\ ~Open)

\* C10 (amended): the timer callback leaves classes, display and listeners
\* alone, the click handler leaves display, opacity and the timers alone, and
\* with all four elements present, once the timer has fired and the close
\* control was clicked at least once after load, the state is the same in
\* every order of these events: opacity 1, display block, popup Closed.
C10_IndependentAllPresent ==
  /\ [][TimerStep => UNCHANGED <<classes, display, listeners>>]_vars
  /\ [][ClickStep => UNCHANGED <<display, opacity, pending, scheduled>>]_vars
  /\ []((AllPresent /\ loaded /\ Fired = 1 /\ ClicksAfterLoad >= 1) =>
          /\ opacity = 1
          /\ display = "block"
          /\ classes = ClosedClasses)

C10_Witness ==
  /\ AllPresent
  /\ log = <<"load", "click", "timer", "click">>
  /\ pre.opacity = 0
  /\ pre.display = "none"

====
